---- MODULE Spec2Model ----
(***************************************************************************)
(* aws-sso-cfn-helper: the lookup command (lookup.py) and the template     *)
(* generator (template.py).                                                *)
(*                                                                         *)
(* Specifications:                                                         *)
(*   SpecIds        an Ids object and the by-name lookups that use it      *)
(*   SpecPS         a PermissionSetArnLookup object over a paged listing   *)
(*   Spec           one run of lookup.py's main()                          *)
(*   SpecTemplates  get_templates / chunk_list_generator                   *)
(*   SpecOuFair     get_accounts_for_ou, one step per loop iteration       *)
(***************************************************************************)
EXTENDS Integers, Sequences, FiniteSets, TLC

VARIABLES
    ids,        \* the Ids object's fields
    instances,  \* what sso-admin list_instances answers: response['Instances']
    last,       \* the last call made on the Ids object and how it ended
    listing,    \* what list_permission_sets / describe_permission_set answer
    cache,      \* PermissionSetArnLookup.cache
    psLast,     \* the last lookup_permission_set_arn call and how it ended
    args,       \* lookup.py's parsed command line
    pc,         \* where main() is
    lines,      \* main()'s lines list
    attempts,   \* the lookups main() made, in order, with how each ended
    stdout,     \* lines printed to standard output
    stderr,     \* lines printed to standard error
    exitCode,   \* the process's exit status, -1 while running
    tin,        \* get_templates' arguments
    tout,       \* get_templates' return value
    org,        \* the organization get_accounts_for_ou walks
    stack,      \* get_accounts_for_ou's call stack
    walked      \* the list the outermost get_accounts_for_ou returned

idsVars == <<ids, instances, last>>
psVars == <<listing, cache, psLast>>
mainVars == <<args, pc, lines, attempts, stdout, stderr, exitCode>>
tplVars == <<tin, tout>>
ouVars == <<org, stack, walked>>
vars == <<ids, instances, last, listing, cache, psLast, args, pc, lines,
          attempts, stdout, stderr, exitCode, tin, tout, org, stack, walked>>

(***************************************************************************)
(* Values.  Python's None is the string "None"; `if x:` is Truthy(x).       *)
(***************************************************************************)
None == "None"

Truthy(s) == s # None

InstanceArns == {"arn:aws:sso:::instance/ssoins-1", "arn:aws:sso:::instance/ssoins-2"}

IdentityStoreIds == {"d-1", "d-2"}

\* s.split('/')[-1] on the strings above
LastSegment(s) ==
    CASE s = "arn:aws:sso:::instance/ssoins-1" -> "ssoins-1"
      [] s = "arn:aws:sso:::instance/ssoins-2" -> "ssoins-2"
      [] OTHER -> s

\* The instances an account can hold: each has its own ARN and identity store.
InstanceRecords ==
    { [InstanceArn |-> "arn:aws:sso:::instance/ssoins-1", IdentityStoreId |-> "d-1"],
      [InstanceArn |-> "arn:aws:sso:::instance/ssoins-2", IdentityStoreId |-> "d-2"] }

MaxInstances == 2

SeqsUpTo(S, n) == UNION { [1..k -> S] : k \in 0..n }

InstanceLists == SeqsUpTo(InstanceRecords, MaxInstances)

NoCall == [op |-> "none"]

(***************************************************************************)
(* class Ids                                                               *)
(***************************************************************************)
Ids_init(instance_arn, identity_store_id) ==
    [ instance_arn |-> instance_arn,
      instance_arn_printed |-> FALSE,
      identity_store_id |-> identity_store_id,
      identity_store_id_printed |-> FALSE,
      suppress_print |-> FALSE ]

\* Ids._print: what reaches standard output
Ids_print(self, text) == IF self.suppress_print THEN <<>> ELSE <<text>>

\* How a property read or a lookup ends: the object afterwards, return or raise,
\* the value returned or the message raised, the list_instances calls made and
\* the lines printed.
Outcome(self, kind, value, calls, out) ==
    [ids |-> self, kind |-> kind, value |-> value, calls |-> calls, out |-> out]

\* the property Ids.instance_arn
Ids_instance_arn(self, response) ==
    IF Truthy(self.instance_arn)
    THEN Outcome([self EXCEPT !.instance_arn_printed = TRUE], "return",
                 self.instance_arn, 0,
                 IF ~self.instance_arn_printed
                 THEN Ids_print(self, <<"Using SSO instance", LastSegment(self.instance_arn)>>)
                 ELSE <<>>)
    ELSE IF Len(response) = 0
    THEN Outcome(self, "LookupError", "No SSO instance found", 1, <<>>)
    ELSE IF Len(response) > 1
    THEN Outcome(self, "LookupError", "SSO instances found", 1, <<>>)
    ELSE LET instance_arn == response[1].InstanceArn
             identity_store_id == response[1].IdentityStoreId
             self1 == [self EXCEPT !.instance_arn = instance_arn,
                                   !.instance_arn_printed = TRUE]
             out == Ids_print(self, <<"Using SSO instance", LastSegment(instance_arn)>>)
         IN  IF Truthy(self.identity_store_id) /\ self.identity_store_id # identity_store_id
             THEN Outcome(self1, "LookupError",
                          "SSO instance identity store does not match given identity store", 1, out)
             ELSE Outcome([self1 EXCEPT !.identity_store_id = identity_store_id],
                          "return", instance_arn, 1, out)

\* Line 65: the given instance ARN is compared with the discovered identity
\* store id.
InstanceMismatch(given_instance_arn, instance_arn, identity_store_id) ==
    Truthy(given_instance_arn) /\ given_instance_arn # identity_store_id

\* the property Ids.identity_store_id.  Line 50 formats the local name
\* identity_store_id, which is assigned only on line 59: reading it first
\* raises UnboundLocalError, before _print is called and before the printed
\* flag is set.
Ids_identity_store_id(self, response) ==
    IF Truthy(self.identity_store_id)
    THEN IF ~self.identity_store_id_printed
         THEN Outcome(self, "UnboundLocalError", "identity_store_id", 0, <<>>)
         ELSE Outcome(self, "return", self.identity_store_id, 0, <<>>)
    ELSE IF Len(response) = 0
    THEN Outcome(self, "LookupError", "No SSO instance found", 1, <<>>)
    ELSE IF Len(response) > 1
    THEN Outcome(self, "LookupError", "SSO instances found", 1, <<>>)
    ELSE LET identity_store_id == response[1].IdentityStoreId
             instance_arn == response[1].InstanceArn
             self1 == [self EXCEPT !.identity_store_id = identity_store_id,
                                   !.identity_store_id_printed = TRUE]
             out == Ids_print(self, <<"Using SSO identity store", identity_store_id>>)
         IN  IF InstanceMismatch(self.instance_arn, instance_arn, identity_store_id)
             THEN Outcome(self1, "LookupError",
                          "SSO instance does not match given instance", 1, out)
             ELSE Outcome([self1 EXCEPT !.instance_arn = instance_arn],
                          "return", identity_store_id, 1, out)

(***************************************************************************)
(* lookup_group_by_name, lookup_user_by_name                               *)
(***************************************************************************)
Names == {"ab", "abcd"}

MaxMatches == 2

\* The entries a filtered list_groups / list_users call can answer for a name:
\* the i-th match of name n has id <<n, i>>.
EntryId(kind, name, i) == <<kind, name, i>>

Responses(kind, name) ==
    { [i \in 1..k |-> EntryId(kind, name, i)] : k \in 0..MaxMatches }

\* A lookup that takes the first entry of any non-empty response.
PickFirst(entries) ==
    IF Len(entries) = 0 THEN [kind |-> "LookupError", value |-> <<"No entry named">>]
    ELSE [kind |-> "return", value |-> entries[1]]

\* Lines 161-165 / 173-177: the filtered response decides.
PickSingle(entries) ==
    IF Len(entries) = 0 THEN [kind |-> "LookupError", value |-> <<"No entry named">>]
    ELSE IF Len(entries) > 1 THEN [kind |-> "LookupError", value |-> <<"entries named">>]
    ELSE [kind |-> "return", value |-> entries[1]]

\* lookup_group_by_name / lookup_user_by_name: the argument ids.identity_store_id
\* is evaluated first; what it raises propagates (`except: raise`).
LookupByName(self, response, entries) ==
    LET store == Ids_identity_store_id(self, response)
    IN  IF store.kind # "return"
        THEN [ids |-> store.ids, resolved |-> FALSE, kind |-> store.kind,
              value |-> <<store.value>>, out |-> store.out]
        ELSE [ids |-> store.ids, resolved |-> TRUE, kind |-> PickSingle(entries).kind,
              value |-> PickSingle(entries).value, out |-> store.out]

(***************************************************************************)
(* The values the variables of the other specifications rest at.           *)
(***************************************************************************)
EmptyListing == [names |-> <<>>, pageSize |-> 1]

EmptyCache == [n \in {} |-> None]

IdleIds == ids = Ids_init(None, None) /\ instances = <<>> /\ last = NoCall

IdlePS == listing = EmptyListing /\ cache = EmptyCache /\ psLast = NoCall

IdleMain ==
    /\ args = [type |-> "none"]
    /\ pc = "off"
    /\ lines = <<>>
    /\ attempts = <<>>
    /\ stdout = <<>>
    /\ stderr = <<>>
    /\ exitCode = -1

IdleTpl == tin = [max_resources_per_template |-> 0] /\ tout = [done |-> FALSE, templates |-> <<>>]

IdleOu == org = [root |-> 0] /\ stack = <<>> /\ walked = [done |-> FALSE, accounts |-> <<>>]

(***************************************************************************)
(* SpecIds: the properties of one Ids object are read, and names looked    *)
(* up through it, in any order.  list_instances answers the same throughout.*)
(***************************************************************************)
ArgValues(S) == {None} \cup S

InitIds ==
    /\ \E a \in ArgValues(InstanceArns), s \in ArgValues(IdentityStoreIds), q \in BOOLEAN :
          ids = [Ids_init(a, s) EXCEPT !.suppress_print = q]
    /\ instances \in InstanceLists
    /\ last = NoCall
    /\ IdlePS /\ IdleMain /\ IdleTpl /\ IdleOu

ReadInstanceArn ==
    LET r == Ids_instance_arn(ids, instances)
    IN  /\ ids' = r.ids
        /\ last' = [op |-> "instance_arn", pre |-> ids, entries |-> <<>>,
                    kind |-> r.kind, value |-> <<r.value>>, calls |-> r.calls]
        /\ UNCHANGED <<instances, psVars, mainVars, tplVars, ouVars>>

ReadIdentityStoreId ==
    LET r == Ids_identity_store_id(ids, instances)
    IN  /\ ids' = r.ids
        /\ last' = [op |-> "identity_store_id", pre |-> ids, entries |-> <<>>,
                    kind |-> r.kind, value |-> <<r.value>>, calls |-> r.calls]
        /\ UNCHANGED <<instances, psVars, mainVars, tplVars, ouVars>>

CallLookupGroupByName ==
    \E name \in Names : \E entries \in Responses("Groups", name) :
        LET r == LookupByName(ids, instances, entries)
        IN  /\ ids' = r.ids
            /\ last' = [op |-> "lookup_group_by_name", pre |-> ids, entries |-> entries,
                        kind |-> r.kind, value |-> r.value, calls |-> 0]
            /\ UNCHANGED <<instances, psVars, mainVars, tplVars, ouVars>>

CallLookupUserByName ==
    \E name \in Names : \E entries \in Responses("Users", name) :
        LET r == LookupByName(ids, instances, entries)
        IN  /\ ids' = r.ids
            /\ last' = [op |-> "lookup_user_by_name", pre |-> ids, entries |-> entries,
                        kind |-> r.kind, value |-> r.value, calls |-> 0]
            /\ UNCHANGED <<instances, psVars, mainVars, tplVars, ouVars>>

NextIds ==
    \/ ReadInstanceArn
    \/ ReadIdentityStoreId
    \/ CallLookupGroupByName
    \/ CallLookupUserByName

SpecIds == InitIds /\ [][NextIds]_vars

IsByNameLookup == last.op \in {"lookup_group_by_name", "lookup_user_by_name"}

\* the identity store id could be read from the object the call was made on
StoreResolvable == Ids_identity_store_id(last.pre, instances).kind = "return"

\* C1: lookup_group_by_name and lookup_user_by_name, when the identity store id
\* resolves, return the id of the only entry of a one-entry response and raise
\* LookupError on a response of zero or of several entries.
C1_SingleMatchOrLookupError ==
    (IsByNameLookup /\ StoreResolvable) =>
        /\ Len(last.entries) = 1 => (last.kind = "return" /\ last.value = last.entries[1])
        /\ Len(last.entries) # 1 => last.kind = "LookupError"

C1_Witness ==
    /\ last.op = "lookup_group_by_name"
    /\ StoreResolvable
    /\ Len(last.entries) = 2
    /\ last.kind = "LookupError"

\* C9: reading identity_store_id with no id supplied and one instance listed
\* raises "does not match given instance" only when a supplied instance ARN
\* differs from the listed instance's ARN, and returns the listed identity
\* store id otherwise.
C9_MismatchOnlyOnDifferentArn ==
    (last.op = "identity_store_id" /\ ~Truthy(last.pre.identity_store_id)
        /\ Len(instances) = 1) =>
        LET differs == Truthy(last.pre.instance_arn)
                         /\ last.pre.instance_arn # instances[1].InstanceArn
        IN  /\ last.kind = "LookupError" => differs
            /\ ~differs => (last.kind = "return"
                              /\ last.value = <<instances[1].IdentityStoreId>>)

\* C10: reading identity_store_id on an object that already knows an identity
\* store id returns that id, raises nothing and calls list_instances not at all.
C10_KnownStoreIdIsReturned ==
    (last.op = "identity_store_id" /\ Truthy(last.pre.identity_store_id)) =>
        /\ last.kind = "return"
        /\ last.value = <<last.pre.identity_store_id>>
        /\ last.calls = 0

(***************************************************************************)
(* class PermissionSetArnLookup                                            *)
(***************************************************************************)
PsNames == {"Admin", "Dev", "ReadOnly"}

MaxPermissionSets == 3

MaxPageSize == 2

\* The instance's permission sets in listing order: the i-th has the ARN
\* PermissionSetArn(i) and the name names[i]; list_permission_sets answers them
\* pageSize to a page.
PermissionSetArn(i) == <<"permissionSet", i>>

Listings ==
    { [names |-> n, pageSize |-> s] :
        n \in SeqsUpTo(PsNames, MaxPermissionSets), s \in 1..MaxPageSize }

Min(a, b) == IF a < b THEN a ELSE b

\* paginator.paginate(InstanceArn=...): the responses' PermissionSets lists
PageCount(l) == (Len(l.names) + l.pageSize - 1) \div l.pageSize

Page(l, k) ==
    [ j \in 1..(Min(k * l.pageSize, Len(l.names)) - (k - 1) * l.pageSize) |->
        PermissionSetArn((k - 1) * l.pageSize + j) ]

\* describe_permission_set(...)['PermissionSet']['Name']
DescribeName(l, permission_set_arn) == l.names[permission_set_arn[2]]

\* self.cache[key] = value
CachePut(c, key, value) ==
    [ n \in DOMAIN c \cup {key} |-> IF n = key THEN value ELSE c[n] ]

\* Lines 192-194: every permission set of one response goes into the cache,
\* in order, a later one replacing an earlier one of the same name.
RECURSIVE CachePage(_, _, _, _)
CachePage(c, l, page, j) ==
    IF j > Len(page) THEN c
    ELSE CachePage(CachePut(c, DescribeName(l, page[j]), page[j]), l, page, j + 1)

\* Lines 191-197: the pages in order, stopping after the first page that
\* leaves the name in the cache.
RECURSIVE Paginate(_, _, _, _)
Paginate(c, l, name, k) ==
    IF k > PageCount(l)
    THEN [cache |-> c, kind |-> "LookupError", value |-> <<"No permission set named">>,
          pagesRead |-> k - 1]
    ELSE LET c1 == CachePage(c, l, Page(l, k), 1)
         IN  IF name \in DOMAIN c1
             THEN [cache |-> c1, kind |-> "return", value |-> c1[name], pagesRead |-> k]
             ELSE Paginate(c1, l, name, k + 1)

\* A cache taken to be complete once anything is in it.
CacheAnswersOnceFilled(c, name) == DOMAIN c # {}

\* Line 189: the cache answers the call
CacheAnswers(c, name) == name \in DOMAIN c

\* PermissionSetArnLookup.lookup_permission_set_arn
lookup_permission_set_arn(c, l, name) ==
    IF CacheAnswers(c, name)
    THEN IF name \in DOMAIN c
         THEN [cache |-> c, kind |-> "return", value |-> c[name], pagesRead |-> 0]
         ELSE [cache |-> c, kind |-> "KeyError", value |-> <<name>>, pagesRead |-> 0]
    ELSE Paginate(c, l, name, 1)

(***************************************************************************)
(* SpecPS: PermissionSetArnLookup objects are made and asked for names in  *)
(* any order, over a listing that does not change.                         *)
(***************************************************************************)
InitPS ==
    /\ listing \in Listings
    /\ cache = EmptyCache
    /\ psLast = NoCall
    /\ IdleIds /\ IdleMain /\ IdleTpl /\ IdleOu

\* PermissionSetArnLookup.__init__
NewPermissionSetArnLookup ==
    /\ cache' = EmptyCache
    /\ psLast' = NoCall
    /\ UNCHANGED <<listing, idsVars, mainVars, tplVars, ouVars>>

CallLookupPermissionSetArn ==
    \E name \in PsNames :
        LET r == lookup_permission_set_arn(cache, listing, name)
        IN  /\ cache' = r.cache
            /\ psLast' = [op |-> "lookup_permission_set_arn", name |-> name,
                          pre |-> cache, kind |-> r.kind, value |-> r.value,
                          pagesRead |-> r.pagesRead]
            /\ UNCHANGED <<listing, idsVars, mainVars, tplVars, ouVars>>

NextPS ==
    \/ NewPermissionSetArnLookup
    \/ CallLookupPermissionSetArn

SpecPS == InitPS /\ [][NextPS]_vars

\* the permission sets of the instance that have the name
Named(l, name) == { i \in 1..Len(l.names) : l.names[i] = name }

NamesUnique(l) == \A i, j \in 1..Len(l.names) : l.names[i] = l.names[j] => i = j

\* C2: lookup_permission_set_arn raises LookupError when no permission set or
\* more than one permission set of the instance has the name, and returns the
\* ARN of the permission set when exactly one has it.
C2_ErrorUnlessExactlyOne ==
    psLast.op = "lookup_permission_set_arn" =>
        LET named == Named(listing, psLast.name)
        IN  /\ Cardinality(named) # 1 => psLast.kind = "LookupError"
            /\ Cardinality(named) = 1 =>
                  (psLast.kind = "return"
                     /\ \A i \in named : psLast.value = PermissionSetArn(i))

\* C8: with names unique in the listing, a call on an object whose cache earlier
\* calls have filled ends as the same call does on a new object.
C8_CacheTransparent ==
    (psLast.op = "lookup_permission_set_arn" /\ NamesUnique(listing)) =>
        LET fresh == lookup_permission_set_arn(EmptyCache, listing, psLast.name)
        IN  psLast.kind = fresh.kind /\ psLast.value = fresh.value

\* a call that found a partly filled cache without the name and read on to a
\* later page
C8_Witness ==
    /\ psLast.op = "lookup_permission_set_arn"
    /\ NamesUnique(listing)
    /\ psLast.pre # EmptyCache
    /\ psLast.name \notin DOMAIN psLast.pre
    /\ psLast.kind = "return"
    /\ psLast.pagesRead = 2
    /\ Len(listing.names) > 2

(***************************************************************************)
(* lookup.py main().  A printed line is <<text, width, value>>: text padded *)
(* to width and followed by value; width 0 and value <<>> where there is   *)
(* none.                                                                   *)
(***************************************************************************)
MaxValues == 2

NOT_FOUND == <<"NOT_FOUND">>

ListTypes == {"groups", "users", "permission-sets"}

Types == {"instance", "identity-store"} \cup ListTypes

TypeLabel(type) ==
    CASE type = "groups" -> "Group"
      [] type = "users" -> "User"
      [] type = "permission-sets" -> "Permission set"

Plain(text) == <<text, 0, <<>>>>

PlainAll(texts) == [i \in 1..Len(texts) |-> <<texts[i][1], 0, <<texts[i][2]>>>>]

RECURSIVE MaxLen(_, _)
MaxLen(ls, i) ==
    IF i > Len(ls) THEN 0
    ELSE LET rest == MaxLen(ls, i + 1)
         IN  IF Len(ls[i][1]) > rest THEN Len(ls[i][1]) ELSE rest

\* format_lines: max() of an empty sequence raises ValueError
format_lines(ls) ==
    IF Len(ls) = 0
    THEN [kind |-> "ValueError", text |-> <<>>]
    ELSE [kind |-> "return",
          text |-> [i \in 1..Len(ls) |-> <<ls[i][1], MaxLen(ls, 1), ls[i][2]>>]]

\* Lines 86-93: the command line is parsed and the Ids object made.
InitMain ==
    /\ \E t \in Types :
       \E v \in (IF t \in ListTypes
                 THEN SeqsUpTo(IF t = "permission-sets" THEN PsNames ELSE Names, MaxValues)
                 ELSE {<<>>}) :
       \E a \in ArgValues(InstanceArns), s \in ArgValues(IdentityStoreIds) :
       \E e \in BOOLEAN, show \in BOOLEAN :
          /\ args = [type |-> t, value |-> v, instance_arn |-> a,
                     identity_store_id |-> s, error_if_not_found |-> e, show_id |-> show]
          /\ ids = [Ids_init(a, s) EXCEPT !.suppress_print = ~show]
          /\ listing \in (IF t = "permission-sets" THEN Listings ELSE {EmptyListing})
    /\ instances \in InstanceLists
    /\ last = NoCall
    /\ cache = EmptyCache
    /\ psLast = NoCall
    /\ pc = "start"
    /\ lines = <<>>
    /\ attempts = <<>>
    /\ stdout = <<>>
    /\ stderr = <<>>
    /\ exitCode = -1
    /\ IdleTpl /\ IdleOu

\* sys.exit, parser.error, the return from main() or an uncaught exception
Exit(code, err) ==
    /\ pc' = "exited"
    /\ exitCode' = code
    /\ stderr' = stderr \o err

\* Lines 96-101 with 149-151: print(ids.<property>) under the outer handler
PrintProperty(r) ==
    /\ ids' = r.ids
    /\ IF r.kind = "return"
       THEN stdout' = stdout \o PlainAll(r.out) \o <<Plain(r.value)>> /\ Exit(0, <<>>)
       ELSE IF r.kind = "LookupError"
       THEN stdout' = stdout \o PlainAll(r.out) /\ Exit(1, <<<<r.value>>>>)
       ELSE stdout' = stdout \o PlainAll(r.out) /\ Exit(1, <<<<"Traceback", r.kind>>>>)
    /\ UNCHANGED <<instances, last, psVars, args, lines, attempts, tplVars, ouVars>>

MainInstance ==
    /\ pc = "start" /\ args.type = "instance"
    /\ PrintProperty(Ids_instance_arn([ids EXCEPT !.suppress_print = TRUE], instances))

MainIdentityStore ==
    /\ pc = "start" /\ args.type = "identity-store"
    /\ PrintProperty(Ids_identity_store_id([ids EXCEPT !.suppress_print = TRUE], instances))

\* Lines 103-105, 118-120: parser.error exits with status 2
MainStartByName ==
    /\ pc = "start" /\ args.type \in {"groups", "users"}
    /\ IF Len(args.value) = 0
       THEN Exit(2, <<<<TypeLabel(args.type), "name is required">>>>)
       ELSE pc' = "loop" /\ UNCHANGED <<exitCode, stderr>>
    /\ UNCHANGED <<idsVars, psVars, args, lines, attempts, stdout, tplVars, ouVars>>

\* Lines 133-136: PermissionSetArnLookup.__init__ reads ids.instance_arn, under
\* the outer handler only
MainStartPermissionSets ==
    /\ pc = "start" /\ args.type = "permission-sets"
    /\ IF Len(args.value) = 0
       THEN /\ Exit(2, <<<<TypeLabel(args.type), "name is required">>>>)
            /\ UNCHANGED <<ids, stdout>>
       ELSE LET r == Ids_instance_arn(ids, instances)
            IN  /\ ids' = r.ids
                /\ stdout' = stdout \o PlainAll(r.out)
                /\ IF r.kind = "return"
                   THEN pc' = "loop" /\ UNCHANGED <<exitCode, stderr>>
                   ELSE Exit(1, <<<<r.value>>>>)
    /\ UNCHANGED <<instances, last, psVars, args, lines, attempts, tplVars, ouVars>>

\* Lines 107-115, 122-130, 138-146: what one iteration does with the way the
\* lookup of `name` ended (r.kind, r.value) after printing r.out.
Iteration(name, r) ==
    /\ attempts' = Append(attempts, [name |-> name, kind |-> r.kind, value |-> r.value])
    /\ IF r.kind = "return"
       THEN /\ lines' = Append(lines, <<name, r.value>>)
            /\ stdout' = stdout \o PlainAll(r.out)
            /\ UNCHANGED <<pc, exitCode, stderr>>
       ELSE IF r.kind = "LookupError"
       THEN IF args.error_if_not_found
            THEN /\ lines' = lines
                 /\ IF format_lines(lines).kind = "return"
                    THEN /\ stdout' = stdout \o PlainAll(r.out) \o format_lines(lines).text
                         /\ Exit(1, <<<<TypeLabel(args.type), name, "not found">>>>)
                    ELSE /\ stdout' = stdout \o PlainAll(r.out)
                         /\ Exit(1, <<<<"Traceback", format_lines(lines).kind>>>>)
            ELSE /\ lines' = Append(lines, <<name, NOT_FOUND>>)
                 /\ stdout' = stdout \o PlainAll(r.out)
                 /\ UNCHANGED <<pc, exitCode, stderr>>
       ELSE /\ lines' = lines
            /\ stdout' = stdout \o PlainAll(r.out)
            /\ Exit(1, <<<<"Traceback", r.kind>>>>)

NextName == args.value[Len(attempts) + 1]

MainLookupGroup ==
    /\ pc = "loop" /\ args.type = "groups" /\ Len(attempts) < Len(args.value)
    /\ \E entries \in Responses("Groups", NextName) :
          LET r == LookupByName(ids, instances, entries)
          IN  ids' = r.ids /\ Iteration(NextName, r)
    /\ UNCHANGED <<instances, last, psVars, args, tplVars, ouVars>>

MainLookupUser ==
    /\ pc = "loop" /\ args.type = "users" /\ Len(attempts) < Len(args.value)
    /\ \E entries \in Responses("Users", NextName) :
          LET r == LookupByName(ids, instances, entries)
          IN  ids' = r.ids /\ Iteration(NextName, r)
    /\ UNCHANGED <<instances, last, psVars, args, tplVars, ouVars>>

MainLookupPermissionSet ==
    /\ pc = "loop" /\ args.type = "permission-sets" /\ Len(attempts) < Len(args.value)
    /\ LET r == lookup_permission_set_arn(cache, listing, NextName)
       IN  /\ cache' = r.cache
           /\ Iteration(NextName, [kind |-> r.kind, value |-> r.value, out |-> <<>>])
    /\ UNCHANGED <<idsVars, listing, psLast, args, tplVars, ouVars>>

\* Lines 116, 131, 147: the loop is over
MainPrintLines ==
    /\ pc = "loop" /\ Len(attempts) = Len(args.value)
    /\ IF format_lines(lines).kind = "return"
       THEN stdout' = stdout \o format_lines(lines).text /\ Exit(0, <<>>)
       ELSE stdout' = stdout /\ Exit(1, <<<<"Traceback", format_lines(lines).kind>>>>)
    /\ UNCHANGED <<idsVars, psVars, args, lines, attempts, tplVars, ouVars>>

Next ==
    \/ MainInstance
    \/ MainIdentityStore
    \/ MainStartByName
    \/ MainStartPermissionSets
    \/ MainLookupGroup
    \/ MainLookupUser
    \/ MainLookupPermissionSet
    \/ MainPrintLines

Spec == InitMain /\ [][Next]_vars

\* the name: value lines on standard output
OutputLines == SelectSeq(stdout, LAMBDA x : x[2] > 0)

LookupErrorAt(k) == k \in 1..Len(attempts) /\ attempts[k].kind = "LookupError"

FirstLookupErrorAt(k) == LookupErrorAt(k) /\ \A j \in 1..(k - 1) : ~LookupErrorAt(j)

\* what the loop had resolved before the k-th name
ResolvedBefore(k) == [i \in 1..(k - 1) |-> <<attempts[i].name, attempts[i].value>>]

\* C5: with --error-if-not-found, at the first name whose lookup raises
\* LookupError, whatever its position, the lines resolved so far are printed,
\* "<label> <name> not found" goes to standard error, the exit status is 1 and
\* no later name is looked up.
C5_StopAtFirstNotFound ==
    (pc = "exited" /\ args.type \in ListTypes /\ args.error_if_not_found) =>
        \A k \in 1..Len(args.value) :
            FirstLookupErrorAt(k) =>
                /\ Len(attempts) = k
                /\ exitCode = 1
                /\ stderr = <<<<TypeLabel(args.type), args.value[k], "not found">>>>
                /\ OutputLines = format_lines(ResolvedBefore(k)).text

\* C6: without --error-if-not-found, once main() is in its loop over the
\* names, every name is looked up, and the output is one line per name in input
\* order: NOT_FOUND for the names whose lookup raised LookupError, the id or ARN
\* found for the others.
C6_OneLinePerName ==
    (pc = "exited" /\ args.type \in ListTypes /\ ~args.error_if_not_found
        /\ Len(attempts) > 0) =>
        /\ Len(attempts) = Len(args.value)
        /\ OutputLines =
              format_lines([i \in 1..Len(attempts) |->
                  <<args.value[i],
                    IF attempts[i].kind = "LookupError" THEN NOT_FOUND
                    ELSE attempts[i].value>>]).text

(***************************************************************************)
(* template.py: get_templates.  A string is <<prefix, rest>>, the prefix   *)
(* being what the startswith tests look at ("" for none of them).          *)
(***************************************************************************)
PRINCIPAL_TYPE_GROUP == "GROUP"

PRINCIPAL_TYPE_USER == "USER"

TARGET_TYPE_ACCOUNT == "AWS_ACCOUNT"

REF_PREFIX == "!Ref="

StartsWith(str, prefix) == str[1] = prefix

\* str[len(prefix):] of a string that starts with prefix
StripPrefix(str) == str[2]

MaxList == 2

MaxPerTemplate == 3

\* The i-th string of an argument list: every list holds distinct strings,
\* with and without the prefixes get_templates tests for.
PrincipalString(kind, style, i) ==
    <<IF (i + style) % 2 = 0 THEN REF_PREFIX ELSE "", <<kind, i>>>>

PermissionSetString(style, i) ==
    << CASE (i + style) % 5 = 0 -> "arn"
         [] (i + style) % 5 = 1 -> ""
         [] (i + style) % 5 = 2 -> REF_PREFIX
         [] (i + style) % 5 = 3 -> "ssoins"
         [] OTHER -> "ins",
       <<"ps", i>> >>

TemplateInputs ==
    { [ instance |-> <<IF style = 0 THEN "arn" ELSE "", <<"ssoins", 1>>>>,
        groups |-> [i \in 1..nG |-> PrincipalString("g", style, i)],
        users |-> [i \in 1..nU |-> PrincipalString("u", style + 1, i)],
        permission_sets |-> [i \in 1..nP |-> PermissionSetString(style, i)],
        ous |-> [i \in 1..nO |-> i],
        accounts |-> [i \in 1..nA |-> PrincipalString("a", style, i)],
        ou_fetcher |-> [o \in 1..nO |->
                          [j \in 1..((o + nF) % (MaxList + 1)) |->
                              PrincipalString(o, style, j)]],
        max_resources_per_template |-> m ] :
      nG \in 0..MaxList, nU \in 0..MaxList, nP \in 0..MaxList, nO \in 0..MaxList,
      nA \in 0..MaxList, nF \in 0..MaxList, m \in 1..MaxPerTemplate, style \in 0..1 }

\* get_resource: the InstanceArn is the same in every resource and left out
get_resource(principal, permission_set_arn, target) ==
    [ Type |-> "AWS::SSO::Assignment",
      PrincipalType |-> principal[1],
      PrincipalId |-> principal[2],
      PermissionSetArn |-> permission_set_arn,
      TargetType |-> target[1],
      TargetId |-> target[2] ]

\* range(0, len(lst), chunk_length) and lst[i:i + chunk_length]
RECURSIVE ChunksFrom(_, _, _)
ChunksFrom(lst, chunk_length, i) ==
    IF i >= Len(lst) THEN <<>>
    ELSE <<SubSeq(lst, i + 1, Min(i + chunk_length, Len(lst)))>>
           \o ChunksFrom(lst, chunk_length, i + chunk_length)

\* A slicing that loses the last, shorter chunk.
FullChunksOnly(lst, chunk_length) ==
    [ c \in 1..(Len(lst) \div chunk_length) |->
        SubSeq(lst, (c - 1) * chunk_length + 1, c * chunk_length) ]

\* A slicing whose chunks run one element into the next.
OverlongChunks(lst, chunk_length) ==
    [ c \in 1..((Len(lst) + chunk_length - 1) \div chunk_length) |->
        SubSeq(lst, (c - 1) * chunk_length + 1, Min(c * chunk_length + 1, Len(lst))) ]

chunk_list_generator(lst, chunk_length) == ChunksFrom(lst, chunk_length, 0)

\* '{:03d}'.format(index): the decimal digits, zero-padded to three
RECURSIVE Decimal(_)
Decimal(n) == IF n < 10 THEN <<n>> ELSE Decimal(n \div 10) \o <<n % 10>>

ZeroPad3(digits) ==
    IF Len(digits) >= 3 THEN digits
    ELSE [i \in 1..(3 - Len(digits)) |-> 0] \o digits

ResourceName(index) == <<"Assignment">> \o ZeroPad3(Decimal(index))

\* {"Ref": ...} for a string with the reference prefix, the string otherwise
RefOrValue(str) ==
    IF StartsWith(str, REF_PREFIX) THEN <<"Ref", StripPrefix(str)>> ELSE str

\* Lines 181-185: the last segment of the instance ARN, whether the instance
\* was given as an ARN or as an id
InstanceId(instance) == StripPrefix(instance)

\* Lines 201-208
PermissionSetArnOf(permission_set, instance_id) ==
    IF StartsWith(permission_set, "arn") THEN permission_set
    ELSE IF StartsWith(permission_set, REF_PREFIX) THEN <<"Ref", StripPrefix(permission_set)>>
    ELSE IF StartsWith(permission_set, "ssoins") \/ StartsWith(permission_set, "ins")
    THEN <<"arn:aws:sso:::permissionSet/", permission_set>>
    ELSE <<"arn:aws:sso:::permissionSet/", instance_id, permission_set>>

\* Line 187
Principals(input) ==
    [i \in 1..Len(input.groups) |-> <<PRINCIPAL_TYPE_GROUP, input.groups[i]>>]
      \o [i \in 1..Len(input.users) |-> <<PRINCIPAL_TYPE_USER, input.users[i]>>]

TagAccounts(accts) == [i \in 1..Len(accts) |-> <<TARGET_TYPE_ACCOUNT, accts[i]>>]

\* Lines 189-192
RECURSIVE FetchedTargets(_, _)
FetchedTargets(input, i) ==
    IF i > Len(input.ous) THEN <<>>
    ELSE TagAccounts(input.ou_fetcher[input.ous[i]]) \o FetchedTargets(input, i + 1)

Targets(input) == FetchedTargets(input, 1) \o TagAccounts(input.accounts)

\* Lines 209-216: acc is (resources, index); the t-th target's resource is
\* appended under the name of index + t - 1
TargetLoop(acc, principal, permission_set_arn, targets) ==
    [ resources |->
          acc.resources \o
          [ t \in 1..Len(targets) |->
              <<ResourceName(acc.index + t - 1),
                get_resource(principal, permission_set_arn,
                             <<targets[t][1], RefOrValue(targets[t][2])>>)>> ],
      index |-> acc.index + Len(targets) ]

\* Lines 200-216
RECURSIVE PermissionSetLoop(_, _, _, _, _)
PermissionSetLoop(acc, principal, input, targets, s) ==
    IF s > Len(input.permission_sets) THEN acc
    ELSE PermissionSetLoop(
             TargetLoop(acc, principal,
                        PermissionSetArnOf(input.permission_sets[s], InstanceId(input.instance)),
                        targets),
             principal, input, targets, s + 1)

\* Lines 197-216
RECURSIVE PrincipalLoop(_, _, _, _)
PrincipalLoop(acc, input, targets, p) ==
    IF p > Len(Principals(input)) THEN acc
    ELSE PrincipalLoop(
             PermissionSetLoop(acc,
                               <<Principals(input)[p][1], RefOrValue(Principals(input)[p][2])>>,
                               input, targets, 1),
             input, targets, p + 1)

Resources(input) == PrincipalLoop([resources |-> <<>>, index |-> 1], input, Targets(input), 1).resources

\* collections.OrderedDict(pairs): a key keeps its first place and its last value
RECURSIVE OrderedDict(_, _)
OrderedDict(pairs, n) ==
    IF n = 0 THEN <<>>
    ELSE LET d == OrderedDict(pairs, n - 1)
             key == pairs[n][1]
         IN  IF \E i \in 1..Len(d) : d[i][1] = key
             THEN [i \in 1..Len(d) |-> IF d[i][1] = key THEN pairs[n] ELSE d[i]]
             ELSE Append(d, pairs[n])

\* Lines 218-223
get_templates(input) ==
    LET chunks == chunk_list_generator(Resources(input), input.max_resources_per_template)
    IN  [ c \in 1..Len(chunks) |->
            [ AWSTemplateFormatVersion |-> "2010-09-09",
              Resources |-> OrderedDict(chunks[c], Len(chunks[c])) ] ]

(***************************************************************************)
(* SpecTemplates: get_templates is called once on any of the inputs.       *)
(***************************************************************************)
InitTemplates ==
    /\ tin \in TemplateInputs
    /\ tout = [done |-> FALSE, templates |-> <<>>]
    /\ IdleIds /\ IdlePS /\ IdleMain /\ IdleOu

CallGetTemplates ==
    /\ ~tout.done
    /\ tout' = [done |-> TRUE, templates |-> get_templates(tin)]
    /\ UNCHANGED <<tin, idsVars, psVars, mainVars, ouVars>>

NextTemplates == CallGetTemplates

SpecTemplates == InitTemplates /\ [][NextTemplates]_vars

\* C3: every template get_templates returns has at most
\* max_resources_per_template entries in Resources.
C3_TemplateSizeBounded ==
    tout.done =>
        \A c \in 1..Len(tout.templates) :
            Len(tout.templates[c].Resources) <= tin.max_resources_per_template

\* several templates, the last one shorter than the others
C3_Witness ==
    /\ tout.done
    /\ Len(tout.templates) >= 3
    /\ tin.max_resources_per_template = 2
    /\ Len(tout.templates[Len(tout.templates)].Resources) = 1

RECURSIVE Flatten(_, _)
Flatten(templates, c) ==
    IF c > Len(templates) THEN <<>>
    ELSE templates[c].Resources \o Flatten(templates, c + 1)

\* the number a resource name ends in
NameNumber(name) ==
    IF Len(name) = 4 /\ name[1] = "Assignment"
    THEN 100 * name[2] + 10 * name[3] + name[4]
    ELSE -1

\* C7: the resources of the templates, in order, are one per (principal,
\* permission set, target) position of the input, principal-major, then
\* permission set, then target, named Assignment001, Assignment002, ... in that
\* order; every template but the last holds max_resources_per_template of them.
C7_ChunkingKeepsAllInOrder ==
    tout.done =>
        LET all == Flatten(tout.templates, 1)
            P == Principals(tin)
            S == tin.permission_sets
            T == Targets(tin)
            nS == Len(S)
            nT == Len(T)
        IN  /\ Len(all) = Len(P) * nS * nT
            /\ \A k \in 1..Len(all) :
                  LET p == P[((k - 1) \div (nS * nT)) + 1]
                      s == S[(((k - 1) \div nT) % nS) + 1]
                      t == T[((k - 1) % nT) + 1]
                      r == all[k][2]
                  IN  /\ NameNumber(all[k][1]) = k
                      /\ r.PrincipalType = p[1]
                      /\ r.PrincipalId = RefOrValue(p[2])
                      /\ r.PermissionSetArn = PermissionSetArnOf(s, StripPrefix(tin.instance))
                      /\ r.TargetId = RefOrValue(t[2])
            /\ \A c \in 1..(Len(tout.templates) - 1) :
                  Len(tout.templates[c].Resources) = tin.max_resources_per_template

\* several principals, permission sets and targets, chunked into several
\* templates with a shorter last one
C7_Witness ==
    /\ tout.done
    /\ Len(Principals(tin)) >= 2
    /\ Len(tin.permission_sets) >= 2
    /\ Len(tin.ous) >= 1
    /\ Len(Targets(tin)) >= 3
    /\ tin.max_resources_per_template = 3
    /\ Len(tout.templates) >= 3
    /\ Len(tout.templates[Len(tout.templates)].Resources) < 3

(***************************************************************************)
(* template.py: get_accounts_for_ou.  The organization is OUs 1..NumOus,   *)
(* OU 1 at the top and every other OU under a lower-numbered one, and      *)
(* accounts 1..NumAccounts, each under one OU.  A frame of the call stack  *)
(* is one activation: its OU, the loop it is in, the page and the place in *)
(* the page it has reached, and its accounts list.                         *)
(***************************************************************************)
NumOus == 3

NumAccounts == 2

MaxOuPageSize == 2

Orgs ==
    { [parent |-> par, accountParent |-> ap, pageSize |-> ps, root |-> r] :
        par \in { f \in [2..NumOus -> 1..NumOus] : \A i \in 2..NumOus : f[i] < i },
        ap \in [1..NumAccounts -> 1..NumOus],
        ps \in 1..MaxOuPageSize,
        r \in 1..NumOus }

\* the numbers of S, ascending
RECURSIVE Ascending(_)
Ascending(S) ==
    IF S = {} THEN <<>>
    ELSE LET m == CHOOSE x \in S : \A y \in S : x <= y
         IN  <<m>> \o Ascending(S \ {m})

\* A paginator's responses: at least one, empty when there is nothing to list.
Paged(items, size) ==
    IF Len(items) = 0 THEN <<<<>>>> ELSE ChunksFrom(items, size, 0)

\* list_organizational_units_for_parent(ParentId=ou), the Ids of each response
SubOuPages(o, ou) ==
    Paged(Ascending({ i \in 2..NumOus : o.parent[i] = ou }), o.pageSize)

\* list_accounts_for_parent(ParentId=ou), the Ids of each response
AccountPages(o, ou) ==
    Paged(Ascending({ a \in 1..NumAccounts : o.accountParent[a] = ou }), o.pageSize)

\* Line 226
Frame(ou) == [ou |-> ou, loop |-> "ous", page |-> 1, pos |-> 1, accounts |-> <<>>]

\* accounts.extend(more) that replaces the list instead
ReplaceAccounts(accounts, more) == more

\* accounts.extend(more)
Extend(accounts, more) == accounts \o more

Top == stack[Len(stack)]

SetTop(f) == [stack EXCEPT ![Len(stack)] = f]

InitOu ==
    /\ org \in Orgs
    /\ stack = <<Frame(org.root)>>
    /\ walked = [done |-> FALSE, accounts |-> <<>>]
    /\ IdleIds /\ IdlePS /\ IdleMain /\ IdleTpl

\* Lines 231-232: the next sub-OU of the response is entered
OuCallSubOu ==
    /\ stack # <<>> /\ Top.loop = "ous"
    /\ Top.page <= Len(SubOuPages(org, Top.ou))
    /\ Top.pos <= Len(SubOuPages(org, Top.ou)[Top.page])
    /\ stack' = Append(stack, Frame(SubOuPages(org, Top.ou)[Top.page][Top.pos]))
    /\ UNCHANGED <<org, walked, idsVars, psVars, mainVars, tplVars>>

\* Line 229: the response is used up, the next one is fetched
OuNextSubOuPage ==
    /\ stack # <<>> /\ Top.loop = "ous"
    /\ Top.page <= Len(SubOuPages(org, Top.ou))
    /\ Top.pos > Len(SubOuPages(org, Top.ou)[Top.page])
    /\ stack' = SetTop([Top EXCEPT !.page = Top.page + 1, !.pos = 1])
    /\ UNCHANGED <<org, walked, idsVars, psVars, mainVars, tplVars>>

\* Line 234: the first loop is over
OuStartAccounts ==
    /\ stack # <<>> /\ Top.loop = "ous"
    /\ Top.page > Len(SubOuPages(org, Top.ou))
    /\ stack' = SetTop([Top EXCEPT !.loop = "accounts", !.page = 1, !.pos = 1])
    /\ UNCHANGED <<org, walked, idsVars, psVars, mainVars, tplVars>>

\* Lines 235-236: one response of accounts
OuAccountsPage ==
    /\ stack # <<>> /\ Top.loop = "accounts"
    /\ Top.page <= Len(AccountPages(org, Top.ou))
    /\ stack' = SetTop([Top EXCEPT
                          !.accounts = Extend(Top.accounts, AccountPages(org, Top.ou)[Top.page]),
                          !.page = Top.page + 1])
    /\ UNCHANGED <<org, walked, idsVars, psVars, mainVars, tplVars>>

\* Line 238, and line 232 in the caller
OuReturn ==
    /\ stack # <<>> /\ Top.loop = "accounts"
    /\ Top.page > Len(AccountPages(org, Top.ou))
    /\ IF Len(stack) = 1
       THEN /\ stack' = <<>>
            /\ walked' = [done |-> TRUE, accounts |-> Top.accounts]
       ELSE LET caller == stack[Len(stack) - 1]
            IN  /\ stack' = Append(SubSeq(stack, 1, Len(stack) - 2),
                                   [caller EXCEPT
                                      !.accounts = Extend(caller.accounts, Top.accounts),
                                      !.pos = caller.pos + 1])
                /\ UNCHANGED walked
    /\ UNCHANGED <<org, idsVars, psVars, mainVars, tplVars>>

NextOu ==
    \/ OuCallSubOu
    \/ OuNextSubOuPage
    \/ OuStartAccounts
    \/ OuAccountsPage
    \/ OuReturn

\* The interpreter runs the call until it returns.
SpecOuFair == InitOu /\ [][NextOu]_vars /\ WF_vars(NextOu)

\* ou is the root OU or below it
RECURSIVE InSubtree(_, _, _)
InSubtree(o, ou, root) ==
    \/ ou = root
    \/ ou > 1 /\ InSubtree(o, o.parent[ou], root)

Occurrences(seq, x) == Cardinality({ i \in 1..Len(seq) : seq[i] = x })

WalkedExactlySubtree ==
    \A a \in 1..NumAccounts :
        Occurrences(walked.accounts, a) =
            (IF InSubtree(org, org.accountParent[a], org.root) THEN 1 ELSE 0)

\* C4: get_accounts_for_ou(root) returns, and what it returns holds every
\* account under the root OU or under an OU below it exactly once, and no other
\* account.
C4_WalkTerminatesWithSubtreeAccounts ==
    /\ <>walked.done
    /\ [](walked.done => WalkedExactlySubtree)

\* a walk from the top OU that went two levels down and returned accounts of
\* the lowest level; an account's own OU listed on a second page
C4_Witness ==
    /\ walked.done
    /\ org.root = 1
    /\ org.parent[NumOus] > 1
    /\ org.accountParent[1] = NumOus
    /\ org.accountParent[2] = NumOus
    /\ org.pageSize = 1
    /\ Len(walked.accounts) >= 2
====
